---- MODULE Spec2Model ----
(***************************************************************************)
(* InvoiceGenerator.py: a Tk form (InvoiceApp) whose "Generate" button     *)
(* collects the fields into a record and hands it to generate_invoice_pdf, *)
(* which asks for a destination path, lays one page out on a ReportLab     *)
(* canvas and saves it, reporting the outcome in a message box.            *)
(*                                                                         *)
(* Text is a sequence of tokens: the whitespace characters "\n" and " ",   *)
(* the markup lexemes the paragraph parser recognises ("<i>", "</i>",      *)
(* "<b>", "</b>") and opaque words.                                        *)
(***************************************************************************)
EXTENDS Naturals, Sequences, FiniteSets, TLC

VARIABLES
    invoice_title,        \* InvoiceApp.invoice_title (StringVar)
    my_details_text,      \* InvoiceApp.my_details_text (Text widget content)
    client_details_text,  \* InvoiceApp.client_details_text
    deliverables_text,    \* InvoiceApp.deliverables_text
    inference_text,       \* InvoiceApp.inference_text
    total_amount,         \* InvoiceApp.total_amount (StringVar)
    header_font_var,      \* InvoiceApp.header_font_var (StringVar)
    body_font_var,        \* InvoiceApp.body_font_var (StringVar)
    edits,                \* number of field edits made so far
    pc,                   \* position inside generate_invoice_pdf, "idle" outside
    caller,               \* who called generate_invoice_pdf
    data,                 \* the argument of generate_invoice_pdf
    file_path,            \* local file_path
    header_font,          \* local header_font
    body_font,            \* local body_font
    table_data,           \* local table_data
    c,                    \* the canvas: the drawing operations of the page
    exc,                  \* message of the exception caught at line 157
    attempts,             \* times the try block was entered in this call
    shown,                \* message boxes shown by this call
    fs,                   \* the file system: path -> content
    fs0,                  \* the file system when this call began
    handles,              \* paths with an open file handle
    rendered              \* path -> the record its saved document came from

form == <<invoice_title, my_details_text, client_details_text, deliverables_text,
          inference_text, total_amount, header_font_var, body_font_var>>
locals == <<caller, data, file_path, header_font, body_font, table_data, c, exc,
            attempts, shown>>
disk == <<fs, fs0, handles, rendered>>
vars == <<form, edits, pc, locals, disk>>

----------------------------------------------------------------------------
(* Bounds of the exploration *)

MaxEdits == 1
MaxTextLen == 3
MaxTotalLen == 1

----------------------------------------------------------------------------
(* Python and Tk string operations *)

Whitespace == {"\n", " "}

Range(s) == {s[i] : i \in 1..Len(s)}

Seqs(S, n) == UNION {[1..k -> S] : k \in 0..n}

RECURSIVE lstrip(_)
lstrip(s) == IF s # <<>> /\ Head(s) \in Whitespace THEN lstrip(Tail(s)) ELSE s

RECURSIVE rstrip(_)
rstrip(s) ==
    IF s # <<>> /\ s[Len(s)] \in Whitespace THEN rstrip(SubSeq(s, 1, Len(s) - 1)) ELSE s

lstripOnly(s) == lstrip(s)

strip(s) == rstrip(lstrip(s))

\* Text.get("1.0", tk.END): the widget's content followed by the newline Tk
\* keeps at the end of every Text widget.
TextGet(w) == w \o <<"\n">>

\* s.split('\n'): the lines of s, always at least one.
RECURSIVE splitFrom(_, _)
splitFrom(s, line) ==
    IF s = <<>> THEN <<line>>
    ELSE IF Head(s) = "\n" THEN <<line>> \o splitFrom(Tail(s), <<>>)
    ELSE splitFrom(Tail(s), Append(line, Head(s)))

split(s) == splitFrom(s, <<>>)

upperToken(t) ==
    CASE t = "a" -> "A"
      [] t = "invoice" -> "INVOICE"
      [] OTHER -> t

upper(s) == [i \in 1..Len(s) |-> upperToken(s[i])]

max(a, b) == IF a >= b THEN a ELSE b

----------------------------------------------------------------------------
(* Fonts *)

\* line 55, and the values of the two dropdowns (line 246)
available_fonts == {"Helvetica", "Times-Roman", "Courier"}

\* the font names ReportLab can use without registration (its 14 standard fonts);
\* canvas.setFont raises KeyError for any other name
standardFonts ==
    {"Courier", "Courier-Bold", "Courier-Oblique", "Courier-BoldOblique",
     "Helvetica", "Helvetica-Bold", "Helvetica-Oblique", "Helvetica-BoldOblique",
     "Times-Roman", "Times-Bold", "Times-Italic", "Times-BoldItalic",
     "Symbol", "ZapfDingbats"}

\* font names a caller may pass in data['header_font'] / data['body_font']
FontInputs == available_fonts \cup {"Arial"}

NoFont == "none"

\* pdfmetrics.hasFont(name): reportlab.pdfbase.pdfmetrics defines no hasFont
\* (it has getFont, registerFont, getRegisteredFontNames, ...), so evaluating
\* the call raises AttributeError.
hasFont(name) ==
    [raises |-> TRUE,
     msg |-> "module 'reportlab.pdfbase.pdfmetrics' has no attribute 'hasFont'",
     value |-> FALSE]

\* lines 60 and 61: requested if requested in available_fonts or
\* pdfmetrics.hasFont(requested) else default.  "or" evaluates its right side
\* only when the left side is false.
ResolveFont(requested, default) ==
    IF requested \in available_fonts THEN [exc |-> "", font |-> requested]
    ELSE IF hasFont(requested).raises THEN [exc |-> hasFont(requested).msg, font |-> NoFont]
    ELSE IF hasFont(requested).value THEN [exc |-> "", font |-> requested]
    ELSE [exc |-> "", font |-> default]

\* lines 67, 131, 136: font + "-Bold"
BoldName(font) == font \o "-Bold"

\* c.setFont(name, size): KeyError(name) unless the font is known
setFont(name) ==
    IF name \in standardFonts THEN "" ELSE "'" \o name \o "'"

----------------------------------------------------------------------------
(* Paragraph(text, p_style): the text is parsed as markup *)

OpenTags == {"<b>", "<i>"}
CloseTags == {"</b>", "</i>"}

TagOf(t) == IF t \in {"<b>", "</b>"} THEN "b" ELSE "i"

ParseError == "paraparser: syntax error"

\* the parser keeps a stack of open tags; a closing tag must match the top of
\* the stack and no tag may be left open at the end
RECURSIVE ParaParse(_, _, _)
ParaParse(text, stack, out) ==
    IF text = <<>> THEN [ok |-> stack = <<>>, frags |-> out]
    ELSE LET t == Head(text) IN
         IF t \in OpenTags THEN ParaParse(Tail(text), <<TagOf(t)>> \o stack, out)
         ELSE IF t \in CloseTags THEN
             IF stack # <<>> /\ Head(stack) = TagOf(t)
             THEN ParaParse(Tail(text), Tail(stack), out)
             ELSE [ok |-> FALSE, frags |-> <<>>]
         ELSE ParaParse(Tail(text), stack,
                        Append(out, [ch |-> t,
                                     bold |-> "b" \in Range(stack),
                                     italic |-> "i" \in Range(stack)]))

Paragraph(text, font) ==
    LET r == ParaParse(text, <<>>, <<>>) IN
    [exc |-> IF r.ok THEN "" ELSE ParseError,
     cell |-> [kind |-> "Paragraph", text |-> text, fontName |-> font,
               frags |-> r.frags]]

\* a plain string cell of the table
StrCell(word) == [kind |-> "str", text |-> <<word>>, fontName |-> "", frags |-> <<>>]

----------------------------------------------------------------------------
(* Lines 98-119: the table *)

IndexError == "list index out of range"

\* list[i] with a 0-based index
PyIndex(list, i) ==
    IF i < Len(list) THEN [exc |-> "", val |-> list[i + 1]]
    ELSE [exc |-> IndexError, val |-> <<>>]

CellUnguarded(list, i) == PyIndex(list, i)

\* lines 110, 111: list[i] if i < len(list) else ''
Cell(list, i) ==
    IF i < Len(list) THEN PyIndex(list, i) ELSE [exc |-> "", val |-> <<>>]

\* line 106
max_len(deliverables_list, inference_list) ==
    max(Len(deliverables_list), Len(inference_list))

\* the first exception among the results of a sequence of evaluations
RECURSIVE FirstExc(_)
FirstExc(results) ==
    IF results = <<>> THEN ""
    ELSE IF Head(results) # "" THEN Head(results)
    ELSE FirstExc(Tail(results))

\* lines 99-119
BuildTable(d, font) ==
    LET deliverables_list == split(d.deliverables)
        inference_list == split(d.inference)
        n == max_len(deliverables_list, inference_list)
        deliverable(i) == Cell(deliverables_list, i)
        inference(i) == Cell(inference_list, i)
        left(i) == Paragraph(deliverable(i).val, font)
        right(i) == Paragraph(inference(i).val, font)
        label == Paragraph(<<"<b>", "TOTAL PAYABLE:", "</b>">>, font)
        total == Paragraph(<<"<b>">> \o d.total_amount \o <<"</b>">>, font)
        rowExc(i) == FirstExc(<<deliverable(i).exc, inference(i).exc,
                                left(i).exc, right(i).exc>>)
        excs == [i \in 1..n |-> rowExc(i - 1)] \o <<label.exc, total.exc>>
    IN  [exc |-> FirstExc(excs),
         rows |-> <<<<StrCell("Deliverables"), StrCell("Inference")>>>>
                   \o [i \in 1..n |-> <<left(i - 1).cell, right(i - 1).cell>>]
                   \o <<<<label.cell, total.cell>>>>]

\* lines 124-152: the fonts Table.drawOn sets on the canvas, one per row: the
\* FONTNAME of the header row, the default cell font of the item rows, the
\* FONTNAME of the total row
TableFonts(rows, hfont, bfont) ==
    [i \in 1..Len(rows) |->
        IF i = 1 THEN BoldName(hfont)
        ELSE IF i = Len(rows) THEN BoldName(bfont)
        ELSE "Helvetica"]

----------------------------------------------------------------------------
(* Inputs *)

TextChars == {"a", "\n"}
TotalChars == {"1", "<", "<i>"}

TitleInputs == {<<>>, <<"invoice">>, <<"SALES", " ", "INVOICE">>}
DetailInputs == {<<>>, <<" ", "a", "\n">>}
TextInputs == Seqs(TextChars, MaxTextLen)
TotalInputs == Seqs(TotalChars, MaxTotalLen)

\* what the save dialog can return: "" when cancelled
PickerResults == {"", "a.pdf", "b.pdf", "ro.pdf"}
Paths == PickerResults \ {""}
\* destinations open(path, "wb") refuses
Unwritable == {"ro.pdf"}

EmptyData ==
    [invoice_title |-> <<>>, my_details |-> <<>>, client_details |-> <<>>,
     deliverables |-> <<>>, inference |-> <<>>, total_amount |-> <<>>,
     header_font |-> "", body_font |-> ""]

Absent == [kind |-> "absent", page |-> <<>>]
EmptyFile == [kind |-> "file", page |-> <<>>]
PdfFile(page) == [kind |-> "file", page |-> page]

----------------------------------------------------------------------------
(* InvoiceApp.__init__ : the state after construction *)

Init ==
    /\ invoice_title = <<"SALES", " ", "INVOICE">>
    /\ my_details_text =
         <<"Your Name", "\n", "Your Company Name", "\n",
           "Your Address, City, Pin Code", "\n", "GSTIN: ABCDEFGHIJKLMNO", "\n",
           "Bank Name: XYZ Bank", "\n", "A/C No: 1234567890", "\n",
           "IFSC: XYZB0001234">>
    /\ client_details_text =
         <<"Client Name", "\n", "Client Company", "\n",
           "Client Address, City, Pin Code", "\n", "GSTN: PQRSTUVWXY123Z", "\n",
           "PAN: ABCDE1234F", "\n", "Client A/C: 0987654321">>
    /\ deliverables_text =
         <<"Consulting Services (Jan 2024)", "\n", "Project Management (Feb 2024)",
           "\n", "Software Development (Mar 2024)", "\n", "Documentation & Training">>
    /\ inference_text =
         <<"Detailed consultation on project strategy.", "\n",
           "Oversight and coordination of project tasks.", "\n",
           "Development of custom CRM module.", "\n",
           "User manuals and hands-on training sessions.">>
    /\ total_amount = <<"INR 1,50,000.00">>
    /\ header_font_var = "Helvetica"
    /\ body_font_var = "Times-Roman"
    /\ edits = 0
    /\ pc = "idle"
    /\ caller = "none"
    /\ data = EmptyData
    /\ file_path = ""
    /\ header_font = NoFont
    /\ body_font = NoFont
    /\ table_data = <<>>
    /\ c = <<>>
    /\ exc = ""
    /\ attempts = 0
    /\ shown = <<>>
    /\ fs = [p \in Paths |-> Absent]
    /\ fs0 = [p \in Paths |-> Absent]
    /\ handles = {}
    /\ rendered = [p \in Paths |-> EmptyData]

----------------------------------------------------------------------------
(* The user edits the form.  The window is blocked while generate_invoice_pdf *)
(* runs (its dialogs are modal), so fields change only between calls.         *)

CanEdit == pc = "idle" /\ edits < MaxEdits

EditTitle ==
    /\ CanEdit
    /\ \E v \in TitleInputs \ {invoice_title} : invoice_title' = v
    /\ edits' = edits + 1
    /\ UNCHANGED <<my_details_text, client_details_text, deliverables_text,
                   inference_text, total_amount, header_font_var, body_font_var,
                   pc, locals, disk>>

EditMyDetails ==
    /\ CanEdit
    /\ \E v \in DetailInputs \ {my_details_text} : my_details_text' = v
    /\ edits' = edits + 1
    /\ UNCHANGED <<invoice_title, client_details_text, deliverables_text,
                   inference_text, total_amount, header_font_var, body_font_var,
                   pc, locals, disk>>

EditClientDetails ==
    /\ CanEdit
    /\ \E v \in DetailInputs \ {client_details_text} : client_details_text' = v
    /\ edits' = edits + 1
    /\ UNCHANGED <<invoice_title, my_details_text, deliverables_text,
                   inference_text, total_amount, header_font_var, body_font_var,
                   pc, locals, disk>>

EditDeliverables ==
    /\ CanEdit
    /\ \E v \in TextInputs \ {deliverables_text} : deliverables_text' = v
    /\ edits' = edits + 1
    /\ UNCHANGED <<invoice_title, my_details_text, client_details_text,
                   inference_text, total_amount, header_font_var, body_font_var,
                   pc, locals, disk>>

EditInference ==
    /\ CanEdit
    /\ \E v \in TextInputs \ {inference_text} : inference_text' = v
    /\ edits' = edits + 1
    /\ UNCHANGED <<invoice_title, my_details_text, client_details_text,
                   deliverables_text, total_amount, header_font_var, body_font_var,
                   pc, locals, disk>>

EditTotal ==
    /\ CanEdit
    /\ \E v \in TotalInputs \ {total_amount} : total_amount' = v
    /\ edits' = edits + 1
    /\ UNCHANGED <<invoice_title, my_details_text, client_details_text,
                   deliverables_text, inference_text, header_font_var, body_font_var,
                   pc, locals, disk>>

\* the dropdowns are read-only comboboxes over available_fonts_reportlab
SelectHeaderFont ==
    /\ CanEdit
    /\ \E v \in available_fonts \ {header_font_var} : header_font_var' = v
    /\ edits' = edits + 1
    /\ UNCHANGED <<invoice_title, my_details_text, client_details_text,
                   deliverables_text, inference_text, total_amount, body_font_var,
                   pc, locals, disk>>

SelectBodyFont ==
    /\ CanEdit
    /\ \E v \in available_fonts \ {body_font_var} : body_font_var' = v
    /\ edits' = edits + 1
    /\ UNCHANGED <<invoice_title, my_details_text, client_details_text,
                   deliverables_text, inference_text, total_amount, header_font_var,
                   pc, locals, disk>>

----------------------------------------------------------------------------
(* Lines 282-296 *)

\* the dict built at lines 286-295
Collect ==
    [invoice_title |-> invoice_title,
     my_details |-> strip(TextGet(my_details_text)),
     client_details |-> strip(TextGet(client_details_text)),
     deliverables |-> strip(TextGet(deliverables_text)),
     inference |-> strip(TextGet(inference_text)),
     total_amount |-> total_amount,
     header_font |-> header_font_var,
     body_font |-> body_font_var]

\* entering generate_invoice_pdf(d)
Enter(d, who) ==
    /\ pc = "idle"
    /\ pc' = "picker"
    /\ caller' = who
    /\ data' = d
    /\ fs0' = fs
    /\ UNCHANGED <<form, edits, file_path, header_font, body_font, table_data, c,
                   exc, attempts, shown, fs, handles, rendered>>

on_generate_button_click == Enter(Collect, "button")

\* generate_invoice_pdf called with a record whose font names did not come from
\* the dropdowns
CallGenerateInvoicePdf ==
    \E f \in FontInputs \ available_fonts :
        \/ Enter([Collect EXCEPT !.header_font = f], "direct")
        \/ Enter([Collect EXCEPT !.body_font = f], "direct")

----------------------------------------------------------------------------
(* Lines 12-158: generate_invoice_pdf, one action per block of the function *)

Op(name, font, text, rows, fonts) ==
    [op |-> name, font |-> font, text |-> text, rows |-> rows, fonts |-> fonts]

\* the except clause at line 157 is entered with the exception's message
Raise(msg) ==
    /\ exc' = msg
    /\ pc' = "except"

asksaveasfilenameNoCheck ==
    /\ pc = "picker"
    /\ \E p \in PickerResults :
        /\ file_path' = p
        /\ pc' = "try"
    /\ UNCHANGED <<form, edits, caller, data, header_font, body_font, table_data,
                   c, exc, attempts, shown, disk>>

\* lines 27-31
asksaveasfilename ==
    /\ pc = "picker"
    /\ \E p \in PickerResults :
        /\ file_path' = p
        /\ pc' = IF p = "" THEN "return" ELSE "try"
    /\ UNCHANGED <<form, edits, caller, data, header_font, body_font, table_data,
                   c, exc, attempts, shown, disk>>

\* lines 33-61: the try block is entered, the canvas is created (the file is
\* not opened yet) and the two fonts are resolved, the header's first
ResolveFonts ==
    /\ pc = "try"
    /\ attempts' = attempts + 1
    /\ LET h == ResolveFont(data.header_font, "Helvetica")
           b == ResolveFont(data.body_font, "Times-Roman")
       IN  IF h.exc # "" THEN Raise(h.exc) /\ UNCHANGED <<header_font, body_font>>
           ELSE IF b.exc # ""
                THEN Raise(b.exc) /\ header_font' = h.font /\ UNCHANGED body_font
           ELSE /\ header_font' = h.font
                /\ body_font' = b.font
                /\ pc' = "header"
                /\ UNCHANGED exc
    /\ UNCHANGED <<form, edits, caller, data, file_path, table_data, c, shown, disk>>

DrawHeaderWithPath ==
    /\ pc = "header"
    /\ LET e == setFont(BoldName(header_font)) IN
       IF e # "" THEN Raise(e) /\ UNCHANGED c
       ELSE /\ c' = Append(c, Op("drawCentredString", BoldName(header_font),
                                 <<upper(data.invoice_title), <<file_path>>>>,
                                 <<>>, <<>>))
            /\ pc' = "details"
            /\ UNCHANGED exc
    /\ UNCHANGED <<form, edits, caller, data, file_path, header_font, body_font,
                   table_data, attempts, shown, disk>>

\* lines 67-69
DrawHeader ==
    /\ pc = "header"
    /\ LET e == setFont(BoldName(header_font)) IN
       IF e # "" THEN Raise(e) /\ UNCHANGED c
       ELSE /\ c' = Append(c, Op("drawCentredString", BoldName(header_font),
                                 <<upper(data.invoice_title)>>, <<>>, <<>>))
            /\ pc' = "details"
            /\ UNCHANGED exc
    /\ UNCHANGED <<form, edits, caller, data, file_path, header_font, body_font,
                   table_data, attempts, shown, disk>>

\* lines 72-89
DrawDetails ==
    /\ pc = "details"
    /\ LET e == setFont(body_font) IN
       IF e # "" THEN Raise(e) /\ UNCHANGED c
       ELSE /\ c' = c \o <<Op("drawText left", body_font, split(data.my_details),
                              <<>>, <<>>),
                           Op("drawText right", body_font, split(data.client_details),
                              <<>>, <<>>)>>
            /\ pc' = "table"
            /\ UNCHANGED exc
    /\ UNCHANGED <<form, edits, caller, data, file_path, header_font, body_font,
                   table_data, attempts, shown, disk>>

\* lines 92-119
MakeTable ==
    /\ pc = "table"
    /\ LET t == BuildTable(data, body_font) IN
       IF t.exc # "" THEN Raise(t.exc) /\ UNCHANGED table_data
       ELSE /\ table_data' = t.rows
            /\ pc' = "draw"
            /\ UNCHANGED exc
    /\ UNCHANGED <<form, edits, caller, data, file_path, header_font, body_font,
                   c, attempts, shown, disk>>

\* lines 121-152
DrawTable ==
    /\ pc = "draw"
    /\ LET fonts == TableFonts(table_data, header_font, body_font)
           e == FirstExc([i \in 1..Len(fonts) |-> setFont(fonts[i])])
       IN  IF e # "" THEN Raise(e) /\ UNCHANGED c
           ELSE /\ c' = Append(c, Op("table", "", <<>>, table_data, fonts))
                /\ pc' = "save"
                /\ UNCHANGED exc
    /\ UNCHANGED <<form, edits, caller, data, file_path, header_font, body_font,
                   table_data, attempts, shown, disk>>

\* line 154, c.save(): open(file_path, "wb") creates or empties the file
SaveOpen ==
    /\ pc = "save"
    /\ IF file_path \in Unwritable
       THEN Raise("Permission denied") /\ UNCHANGED <<fs, handles, rendered>>
       ELSE /\ fs' = [fs EXCEPT ![file_path] = EmptyFile]
            /\ rendered' = [rendered EXCEPT ![file_path] = EmptyData]
            /\ handles' = handles \cup {file_path}
            /\ pc' = "write"
            /\ UNCHANGED exc
    /\ UNCHANGED <<form, edits, caller, data, file_path, header_font, body_font,
                   table_data, c, attempts, shown, fs0>>

SaveWriteNothing ==
    /\ pc = "write"
    /\ \/ pc' = "close" /\ UNCHANGED <<exc, fs, rendered>>
       \/ Raise("No space left on device") /\ UNCHANGED <<fs, rendered>>
    /\ UNCHANGED <<form, edits, caller, data, file_path, header_font, body_font,
                   table_data, c, attempts, shown, fs0, handles>>

\* line 154, c.save(): the document is written, or the write fails (disk full)
\* and leaves the file as it was opened
SaveWrite ==
    /\ pc = "write"
    /\ \/ /\ fs' = [fs EXCEPT ![file_path] = PdfFile(c)]
          /\ rendered' = [rendered EXCEPT ![file_path] = data]
          /\ pc' = "close"
          /\ UNCHANGED exc
       \/ /\ Raise("No space left on device")
          /\ UNCHANGED <<fs, rendered>>
    /\ UNCHANGED <<form, edits, caller, data, file_path, header_font, body_font,
                   table_data, c, attempts, shown, fs0, handles>>

SaveCloseLeak ==
    /\ pc = "close"
    /\ pc' = "success"
    /\ UNCHANGED <<form, edits, locals, disk>>

\* line 154, c.save(): the file is closed
SaveClose ==
    /\ pc = "close"
    /\ handles' = handles \ {file_path}
    /\ pc' = "success"
    /\ UNCHANGED <<form, edits, locals, fs, fs0, rendered>>

showinfo == [box |-> "showinfo", title |-> "Success",
             message |-> "Invoice PDF generated successfully!"]

showerror(e) == [box |-> "showerror", title |-> "Error",
                 message |-> "An error occurred during PDF generation: " \o e]

\* line 155
ShowSuccess ==
    /\ pc = "success"
    /\ shown' = Append(shown, showinfo)
    /\ pc' = "return"
    /\ UNCHANGED <<form, edits, caller, data, file_path, header_font, body_font,
                   table_data, c, exc, attempts, disk>>

ShowErrorSilent ==
    /\ pc = "except"
    /\ handles' = {}
    /\ pc' = "return"
    /\ UNCHANGED <<form, edits, locals, fs, fs0, rendered>>

\* lines 157-158: the dialog is shown; leaving the except clause drops the
\* exception and with it the frames that raised it, which closes a file that
\* c.save() had opened and not closed
ShowError ==
    /\ pc = "except"
    /\ shown' = Append(shown, showerror(exc))
    /\ handles' = {}
    /\ pc' = "return"
    /\ UNCHANGED <<form, edits, caller, data, file_path, header_font, body_font,
                   table_data, c, exc, attempts, fs, fs0, rendered>>

\* the function returns and its locals are gone
Return ==
    /\ pc = "return"
    /\ pc' = "idle"
    /\ caller' = "none"
    /\ data' = EmptyData
    /\ file_path' = ""
    /\ header_font' = NoFont
    /\ body_font' = NoFont
    /\ table_data' = <<>>
    /\ c' = <<>>
    /\ exc' = ""
    /\ attempts' = 0
    /\ shown' = <<>>
    /\ fs0' = fs
    /\ UNCHANGED <<form, edits, fs, handles, rendered>>

----------------------------------------------------------------------------

Next ==
    \/ EditTitle
    \/ EditMyDetails
    \/ EditClientDetails
    \/ EditDeliverables
    \/ EditInference
    \/ EditTotal
    \/ SelectHeaderFont
    \/ SelectBodyFont
    \/ on_generate_button_click
    \/ CallGenerateInvoicePdf
    \/ asksaveasfilename
    \/ ResolveFonts
    \/ DrawHeader
    \/ DrawDetails
    \/ MakeTable
    \/ DrawTable
    \/ SaveOpen
    \/ SaveWrite
    \/ SaveClose
    \/ ShowSuccess
    \/ ShowError
    \/ Return

Spec == Init /\ [][Next]_vars

----------------------------------------------------------------------------
(* Properties *)

Lines(text) == split(text)

\* r is s without its leading and trailing whitespace
IsStripped(r, s) ==
    /\ r = <<>> \/ (r[1] \notin Whitespace /\ r[Len(r)] \notin Whitespace)
    /\ \E a \in 0..Len(s) :
        /\ a + Len(r) <= Len(s)
        /\ \A i \in 1..a : s[i] \in Whitespace
        /\ \A i \in 1..Len(r) : s[a + i] = r[i]
        /\ \A i \in (a + Len(r) + 1)..Len(s) : s[i] \in Whitespace

FontErrors == {hasFont("").msg} \cup {"'" \o BoldName(f) \o "'" : f \in FontInputs}

\* C1: the table is the header row, then max(m, n) item rows whose cells are
\* the i-th deliverable and the i-th inference line, a missing one empty, then
\* the total row holding the total value; no list is indexed past its end.
C1_TableRows ==
    /\ exc # IndexError
    /\ pc \in {"draw", "save", "write", "close", "success"} => table_data # <<>>
    /\ table_data # <<>> =>
        LET D == Lines(data.deliverables)
            I == Lines(data.inference)
            m == Len(D)
            n == Len(I)
            k == IF m >= n THEN m ELSE n
        IN  /\ Len(table_data) = k + 2
            /\ table_data[1][1].text = <<"Deliverables">>
            /\ table_data[1][2].text = <<"Inference">>
            /\ \A i \in 1..k :
                /\ table_data[i + 1][1].text = (IF i <= m THEN D[i] ELSE <<>>)
                /\ table_data[i + 1][2].text = (IF i <= n THEN I[i] ELSE <<>>)
            /\ table_data[k + 2][2].text = <<"<b>">> \o data.total_amount \o <<"</b>">>

C1_Witness ==
    /\ table_data # <<>>
    /\ Len(Lines(data.deliverables)) # Len(Lines(data.inference))

\* C2: a font name outside the known set resolves to the default (Helvetica
\* for the header, Times-Roman for the body), a known one to itself.
C2_ResolvedFonts ==
    (pc \in {"header", "details", "table", "draw", "save", "except", "return"}
     /\ file_path # "")
    => /\ header_font = (IF data.header_font \in available_fonts
                         THEN data.header_font ELSE "Helvetica")
       /\ body_font = (IF data.body_font \in available_fonts
                       THEN data.body_font ELSE "Times-Roman")

\* C3: when the picker is cancelled the call returns with the file system as
\* it was, no message box shown and nothing rendered.
C3_CancelIsSilent ==
    (pc = "return" /\ file_path = "")
    => /\ fs = fs0
       /\ shown = <<>>
       /\ attempts = 0
       /\ c = <<>>
       /\ table_data = <<>>
       /\ handles = {}

C3_Witness ==
    /\ pc = "return"
    /\ file_path = ""
    /\ \E p \in Paths : fs[p] # Absent

\* C4: a call whose picker was not cancelled ends with exactly one message
\* box, the success box or the error box with the exception's message, after
\* exactly one pass through the try block.
C4_OneNotification ==
    /\ Len(shown) <= 1
    /\ attempts <= 1
    /\ (pc = "return" /\ file_path # "")
       => /\ attempts = 1
          /\ Len(shown) = 1
          /\ \/ exc = "" /\ shown[1] = showinfo
             \/ exc # "" /\ shown[1] = showerror(exc)

C4_Witness ==
    /\ pc = "return"
    /\ exc # ""
    /\ shown = <<showerror(exc)>>

\* C5: the success box is shown only once the document is in a closed,
\* non-empty file at the chosen path, and no other path was touched.
C5_SavedBeforeSuccess ==
    (pc = "success" \/ showinfo \in Range(shown))
    => /\ fs[file_path].kind = "file"
       /\ fs[file_path].page # <<>>
       /\ fs[file_path].page = c
       /\ file_path \notin handles
       /\ \A p \in Paths \ {file_path} : fs[p] = fs0[p]

C5_Witness ==
    /\ pc = "return"
    /\ shown = <<showinfo>>
    /\ fs[file_path].page # <<>>

\* C6: font handling never makes the render fail: every font name the render
\* uses, the "-Bold" names included, is usable.  Stated for the inputs the claim
\* singles out, the fonts the two dropdowns offer (the call comes from the
\* button).
C6_FontsNeverFail ==
    caller = "button" => exc \notin FontErrors

\* C7 as stated: the record handed to the renderer holds every field's value
\* exactly as it is in the form.
C7_FieldsUntouched ==
    caller = "button"
    => /\ data.invoice_title = invoice_title
       /\ data.my_details = my_details_text
       /\ data.client_details = client_details_text
       /\ data.deliverables = deliverables_text
       /\ data.inference = inference_text
       /\ data.total_amount = total_amount
       /\ data.header_font = header_font_var
       /\ data.body_font = body_font_var

\* C7 amended: the record holds the title, the total and the two font names
\* exactly as they are in the form, and each multi-line field without its
\* leading and trailing whitespace.
C7_FieldsStripped ==
    caller = "button"
    => /\ data.invoice_title = invoice_title
       /\ IsStripped(data.my_details, my_details_text)
       /\ IsStripped(data.client_details, client_details_text)
       /\ IsStripped(data.deliverables, deliverables_text)
       /\ IsStripped(data.inference, inference_text)
       /\ data.total_amount = total_amount
       /\ data.header_font = header_font_var
       /\ data.body_font = body_font_var

C7_Witness ==
    /\ caller = "button"
    /\ data.deliverables # deliverables_text
    /\ data.deliverables # <<>>

C9_TotalOpaque ==
    /\ exc # ParseError
    /\ table_data # <<>> =>
        LET cell == table_data[Len(table_data)][2] IN
        /\ [i \in 1..Len(cell.frags) |-> cell.frags[i].ch] = data.total_amount
        /\ \A i \in 1..Len(cell.frags) :
            cell.frags[i].bold /\ ~cell.frags[i].italic

====
